---- MODULE Spec2Model ----
(***************************************************************************)
(* Model of tinty's configuration loader, src/src/config.rs:               *)
(*   Config::read            (lines 83-164)                                *)
(*   ensure_item_name_is_unique (lines 70-80)                              *)
(*   Display for ConfigItem / Config (lines 34-58, 167-193)                *)
(*                                                                         *)
(* A Rust String is a sequence of one-character strings.  Option<T> is a   *)
(* sequence of length 0 (None) or 1 (Some).  A file's text is a sequence   *)
(* of lines; a string-valued line keeps the raw characters to the right of *)
(* "key = " so that quoting is something the parser has to undo.           *)
(***************************************************************************)
EXTENDS Integers, Sequences, FiniteSets, TLC

\* ------------------------------------------------------------------ bounds
MaxShellLen == 2
MaxPad == 1
MaxItems == 2
MaxNameItems == 4
MaxSystems == 2

\* ------------------------------------------------------------- Option<T>
None == <<>>
Some(x) == <<x>>
IsSome(o) == Len(o) = 1
IsNone(o) == Len(o) = 0
Unwrap(o) == o[1]
UnwrapOr(o, d) == IF IsSome(o) THEN o[1] ELSE d

\* ------------------------------------------------------- string helpers
\* str::starts_with
StartsWith(s, p) == Len(p) <= Len(s) /\ SubSeq(s, 1, Len(p)) = p

\* Index of the first occurrence of pat in s, 0 when there is none.
Find(s, pat) ==
    LET hits == {k \in 1..(Len(s) - Len(pat) + 1) :
                    SubSeq(s, k, k + Len(pat) - 1) = pat}
    IN  IF hits = {} THEN 0 ELSE CHOOSE k \in hits : \A j \in hits : k <= j

\* str::contains
Contains(s, pat) == Find(s, pat) # 0

\* A faulty variant of Replacen1: str::replace, every occurrence is replaced.
RECURSIVE ReplaceAll(_, _, _)
ReplaceAll(s, from, to) ==
    LET k == Find(s, from)
    IN  IF k = 0 THEN s
        ELSE SubSeq(s, 1, k - 1) \o to
             \o ReplaceAll(SubSeq(s, k + Len(from), Len(s)), from, to)

\* str::replacen(from, to, 1): only the first occurrence is replaced.
Replacen1(s, from, to) ==
    LET k == Find(s, from)
    IN  IF k = 0 THEN s
        ELSE SubSeq(s, 1, k - 1) \o to \o SubSeq(s, k + Len(from), Len(s))

IsSpace(c) == c = " "

RECURSIVE TrimStart(_)
TrimStart(s) ==
    IF s # <<>> /\ IsSpace(Head(s)) THEN TrimStart(Tail(s)) ELSE s

RECURSIVE TrimEnd(_)
TrimEnd(s) ==
    IF s # <<>> /\ IsSpace(s[Len(s)]) THEN TrimEnd(SubSeq(s, 1, Len(s) - 1)) ELSE s

\* str::trim
Trim(s) == TrimEnd(TrimStart(s))

\* ------------------------------------------------------------ constants
DEFAULT_CONFIG_SHELL == <<"s","h"," ","-","c"," ","'","{","}","'">>
BASE16_SHELL_REPO_URL ==
    <<"h","t","t","p","s",":","/","/","g","i","t","h","u","b",".","c","o","m","/",
      "t","i","n","t","e","d","-","t","h","e","m","i","n","g","/",
      "t","i","n","t","e","d","-","s","h","e","l","l">>
BASE16_SHELL_REPO_NAME == <<"t","i","n","t","e","d","-","s","h","e","l","l">>
BASE16_SHELL_THEMES_DIR == <<"s","c","r","i","p","t","s">>
BASE16_SHELL_HOOK == <<".", " ", "%", "f">>

\* The "{}" placeholder and the "~/" prefix that Config::read looks for.
Placeholder == <<"{", "}">>
TildeSlash == <<"~", "/">>

\* SchemeSystem: the variants, the default one, and their text form.
SchemeSystems == {"Base16", "Base24"}
SchemeSystemDefault == "Base16"
SystemText(v) ==
    IF v = "Base16" THEN <<"b","a","s","e","1","6">> ELSE <<"b","a","s","e","2","4">>

\* ------------------------------------------------------------ the records
ConfigItem(name, path, hook, themes_dir, systems, ext) ==
    [name |-> name, path |-> path, hook |-> hook, themes_dir |-> themes_dir,
     supported_systems |-> systems, theme_file_extension |-> ext]

Config(shell, default_scheme, items, hooks) ==
    [shell |-> shell, default_scheme |-> default_scheme, items |-> items,
     hooks |-> hooks]

\* ------------------------------------------------------- the file's text
\* One line of a TOML file.  t is "str" (key = "<text>", text being the raw
\* characters right of "key = "), "arr" (key = [e1, e2, ...], each e raw),
\* "hdr" ([[items]]), "blank", or "junk" (anything TOML rejects).
StrLine(key, text) == [t |-> "str", key |-> key, text |-> text, arr |-> <<>>]
ArrLine(key, arr) == [t |-> "arr", key |-> key, text |-> <<>>, arr |-> arr]
HdrLine == [t |-> "hdr", key |-> "", text |-> <<>>, arr |-> <<>>]
BlankLine == [t |-> "blank", key |-> "", text |-> <<>>, arr |-> <<>>]
JunkLine == [t |-> "junk", key |-> "", text |-> <<>>, arr |-> <<>>]

Quote == "\""
Backslash == "\\"

\* format!("\"{}\"", s): the characters of s between two quotes, unescaped.
FormatQuoted(s) == <<Quote>> \o s \o <<Quote>>

\* toml: the body of a basic string from position k on; None when the text
\* is not one basic string (unterminated, a bad escape, or text after the
\* closing quote).
RECURSIVE ScanBasicString(_, _, _)
ScanBasicString(text, k, acc) ==
    IF k > Len(text) THEN None
    ELSE IF text[k] = Quote
         THEN IF k = Len(text) THEN Some(acc) ELSE None
    ELSE IF text[k] = Backslash
         THEN IF k + 1 <= Len(text) /\ text[k + 1] \in {Quote, Backslash}
              THEN ScanBasicString(text, k + 2, Append(acc, text[k + 1]))
              ELSE None
    ELSE ScanBasicString(text, k + 1, Append(acc, text[k]))

ParseBasicString(text) ==
    IF text # <<>> /\ text[1] = Quote THEN ScanBasicString(text, 2, <<>>) ELSE None

IsKv(line) == line.t \in {"str", "arr"}

\* toml: every value of the document is well formed.
SyntaxOk(lines) ==
    \A k \in 1..Len(lines) :
        /\ lines[k].t # "junk"
        /\ lines[k].t = "str" => IsSome(ParseBasicString(lines[k].text))
        /\ lines[k].t = "arr" =>
              \A e \in 1..Len(lines[k].arr) : IsSome(ParseBasicString(lines[k].arr[e]))

\* toml: no key is defined twice in the table made of the lines idx.
NoDuplicateKey(lines, idx) ==
    \A k1, k2 \in idx :
        (IsKv(lines[k1]) /\ IsKv(lines[k2]) /\ lines[k1].key = lines[k2].key) => k1 = k2

KeyLines(lines, idx, key) == {k \in idx : IsKv(lines[k]) /\ lines[k].key = key}

\* serde: an Option<String> field of the table idx; ok is FALSE on a value
\* of another type.
StrField(lines, idx, key) ==
    LET ks == KeyLines(lines, idx, key)
    IN  IF ks = {} THEN [ok |-> TRUE, v |-> None]
        ELSE LET l == lines[CHOOSE k \in ks : TRUE]
             IN  IF l.t = "str"
                 THEN [ok |-> TRUE, v |-> Some(Unwrap(ParseBasicString(l.text)))]
                 ELSE [ok |-> FALSE, v |-> None]

\* serde: an Option<Vec<String>> field of the table idx.
ArrField(lines, idx, key) ==
    LET ks == KeyLines(lines, idx, key)
    IN  IF ks = {} THEN [ok |-> TRUE, v |-> None]
        ELSE LET l == lines[CHOOSE k \in ks : TRUE]
             IN  IF l.t = "arr"
                 THEN [ok |-> TRUE,
                       v |-> Some([e \in 1..Len(l.arr) |->
                                      Unwrap(ParseBasicString(l.arr[e]))])]
                 ELSE [ok |-> FALSE, v |-> None]

\* serde: Option<Vec<SchemeSystem>>; a string that names no variant is an error.
SystemsField(lines, idx) ==
    LET f == ArrField(lines, idx, "supported-systems")
    IN  IF ~f.ok \/ IsNone(f.v) THEN f
        ELSE LET a == Unwrap(f.v)
             IN  IF \A e \in 1..Len(a) : \E v \in SchemeSystems : SystemText(v) = a[e]
                 THEN [ok |-> TRUE,
                       v |-> Some([e \in 1..Len(a) |->
                                      CHOOSE v \in SchemeSystems : SystemText(v) = a[e]])]
                 ELSE [ok |-> FALSE, v |-> None]

HeaderLines(lines) == {k \in 1..Len(lines) : lines[k].t = "hdr"}

\* The lines of the root table: those before the first [[items]].
RootLines(lines) ==
    {k \in 1..Len(lines) : \A h \in HeaderLines(lines) : k < h}

\* The lines of the table opened by the header at line h.
TableLines(lines, h) ==
    {k \in (h + 1)..Len(lines) : \A g \in HeaderLines(lines) : g > h => k < g}

\* The n-th [[items]] header, in file order.
NthHeader(lines, n) ==
    CHOOSE h \in HeaderLines(lines) :
        Cardinality({g \in HeaderLines(lines) : g <= h}) = n

\* serde: one [[items]] table as a ConfigItem; name, path and themes-dir are
\* required.
ItemTable(lines, idx) ==
    LET name == StrField(lines, idx, "name")
        path == StrField(lines, idx, "path")
        hook == StrField(lines, idx, "hook")
        dir  == StrField(lines, idx, "themes-dir")
        sys  == SystemsField(lines, idx)
        ext  == StrField(lines, idx, "theme-file-extension")
        ok   == /\ NoDuplicateKey(lines, idx)
                /\ name.ok /\ path.ok /\ hook.ok /\ dir.ok /\ sys.ok /\ ext.ok
                /\ IsSome(name.v) /\ IsSome(path.v) /\ IsSome(dir.v)
    IN  [ok |-> ok,
         item |-> IF ok
                  THEN ConfigItem(Unwrap(name.v), Unwrap(path.v), hook.v,
                                  Unwrap(dir.v), sys.v, ext.v)
                  ELSE ConfigItem(<<>>, <<>>, None, <<>>, None, None)]

\* serde: the items key.  "items = []" gives Some(empty); [[items]] tables
\* give Some(the tables); neither gives None; both, or an array of anything
\* but tables, is an error.
ItemsField(lines) ==
    LET hs == HeaderLines(lines)
        ks == KeyLines(lines, RootLines(lines), "items")
        n  == Cardinality(hs)
        ts == [j \in 1..n |-> ItemTable(lines, TableLines(lines, NthHeader(lines, j)))]
    IN  IF ks # {}
        THEN LET l == lines[CHOOSE k \in ks : TRUE]
             IN  IF hs = {} /\ l.t = "arr" /\ l.arr = <<>>
                 THEN [ok |-> TRUE, v |-> Some(<<>>)]
                 ELSE [ok |-> FALSE, v |-> None]
        ELSE IF hs = {} THEN [ok |-> TRUE, v |-> None]
        ELSE IF \A j \in 1..n : ts[j].ok
             THEN [ok |-> TRUE, v |-> Some([j \in 1..n |-> ts[j].item])]
             ELSE [ok |-> FALSE, v |-> None]

\* toml::from_str::<Config>: the draft Config, or ok = FALSE (a parse error).
from_str(lines) ==
    IF ~SyntaxOk(lines) THEN [ok |-> FALSE, config |-> Config(None, None, None, None)]
    ELSE
    LET root   == RootLines(lines)
        shell  == StrField(lines, root, "shell")
        scheme == StrField(lines, root, "default-scheme")
        hooks  == ArrField(lines, root, "hooks")
        items  == ItemsField(lines)
        ok     == /\ NoDuplicateKey(lines, root)
                  /\ shell.ok /\ scheme.ok /\ hooks.ok /\ items.ok
    IN  [ok |-> ok,
         config |-> IF ok THEN Config(shell.v, scheme.v, items.v, hooks.v)
                    ELSE Config(None, None, None, None)]

\* ------------------------------------------------------------- Display
\* impl fmt::Display for ConfigItem: the lines written for one item.
DisplayItem(item) ==
    LET hook == UnwrapOr(item.hook, <<>>)
        systems == UnwrapOr(item.supported_systems, <<SchemeSystemDefault>>)
        system_text == [e \in 1..Len(systems) |-> FormatQuoted(SystemText(systems[e]))]
    IN  <<BlankLine, HdrLine,
          StrLine("name", FormatQuoted(item.name)),
          StrLine("path", FormatQuoted(item.path))>>
        \o (IF hook # <<>> THEN <<StrLine("hook", FormatQuoted(hook))>> ELSE <<>>)
        \o <<ArrLine("supported-systems", system_text),
             StrLine("themes-dir", FormatQuoted(item.themes_dir))>>

RECURSIVE DisplayItems(_)
DisplayItems(items) ==
    IF items = <<>> THEN <<>>
    ELSE DisplayItem(Head(items)) \o DisplayItems(Tail(items))

\* impl fmt::Display for Config: the text written for a Config.
DisplayConfig(c) ==
    <<StrLine("shell", FormatQuoted(UnwrapOr(c.shell, <<"N","o","n","e">>)))>>
    \o (IF IsSome(c.default_scheme)
        THEN <<StrLine("default-scheme", FormatQuoted(UnwrapOr(c.default_scheme, <<>>)))>>
        ELSE <<>>)
    \o (IF IsSome(c.items) THEN DisplayItems(Unwrap(c.items)) ELSE <<>>)

\* ------------------------------------------------------ the environment
Letters == {"a","b","c","d","e","f","g","h","i","j","k","l","m",
            "n","o","p","q","r","s","t","u","v","w","x","y","z"}
Digits == {"0","1","2","3","4","5","6","7","8","9"}

\* The schemes for which the url crate demands a host.
HostSchemes ==
    { <<"h","t","t","p">>, <<"h","t","t","p","s">>, <<"w","s">>, <<"w","s","s">>,
      <<"f","t","p">> }

RECURSIVE SkipSlashes(_)
SkipSlashes(s) ==
    IF s # <<>> /\ Head(s) \in {"/", Backslash} THEN SkipSlashes(Tail(s)) ELSE s

\* Url::parse(s).is_ok(): surrounding spaces are stripped; the text must open
\* with a scheme (a letter, then letters, digits, "+", "-", "."), then ":";
\* http-like schemes also need a non-empty host.  Without a scheme the url
\* crate answers RelativeUrlWithoutBase.
UrlParseOk(s) ==
    LET t == Trim(s)
        k == Find(t, <<":">>)
        scheme == SubSeq(t, 1, k - 1)
        rest == SkipSlashes(SubSeq(t, k + 1, Len(t)))
    IN  /\ k > 1
        /\ scheme[1] \in Letters
        /\ \A j \in 1..Len(scheme) : scheme[j] \in Letters \cup Digits \cup {"+", "-", "."}
        /\ scheme \in HostSchemes => (rest # <<>> /\ rest[1] \notin {"/", "?", "#"})

\* ------------------------------------------------------------ the state
VARIABLES
    pathKind,   \* what the config path is: "missing", "file", "dir", "unreadable"
    contents,   \* the text of the file at the config path
    home,       \* home_dir(): an Option<String>
    dirs,       \* the strings p for which Path::new(p).is_dir()
    pc,         \* where Config::read stands
    config,     \* the local `config`, an Option until the file is parsed
    shell,      \* the local `shell`, an Option until it is computed
    i,          \* the index of the item the loop of lines 125-153 is at
    result,     \* what Config::read returned
    round,      \* 1: the load of the file; 2: the load of its rendering
    orig        \* the Config of round 1, kept to compare with round 2

vars == <<pathKind, contents, home, dirs, pc, config, shell, i, result, round, orig>>
env == <<home, dirs>>

\* The Result<Config> of Config::read.  args are the values interpolated in
\* the error message.
NoResult == [kind |-> "none", err |-> "", args |-> <<>>, config |-> None]
Ok(c) == [kind |-> "Ok", err |-> "", args |-> <<>>, config |-> Some(c)]
Err(e, args) == [kind |-> "Err", err |-> e, args |-> args, config |-> None]

\* path.display() of the config path.
ConfigPath == <<"c","o","n","f","i","g",".","t","o","m","l">>

\* A faulty variant of ExistsNotFile: !path.is_file(), without path.exists().
NotFile(kind) == kind \notin {"file", "unreadable"}

\* path.exists() && !path.is_file()
ExistsNotFile(kind) == kind = "dir"

\* fs::read_to_string(path).unwrap_or(String::from(""))
ReadToStringOrEmpty(kind, text) == IF kind = "file" THEN text ELSE <<>>

\* A faulty variant of Base16ShellConfigItem: the built-in item without its hook.
Base16ShellConfigItem_NoHook ==
    ConfigItem(BASE16_SHELL_REPO_NAME, BASE16_SHELL_REPO_URL, None,
               BASE16_SHELL_THEMES_DIR, Some(<<"Base16">>), None)

\* The built-in item of lines 104-111.
Base16ShellConfigItem ==
    ConfigItem(BASE16_SHELL_REPO_NAME, BASE16_SHELL_REPO_URL, Some(BASE16_SHELL_HOOK),
               BASE16_SHELL_THEMES_DIR, Some(<<"Base16">>), None)

\* ensure_item_name_is_unique: None when every name is new, else Some(the
\* name of the first item whose name is already in the set).
RECURSIVE EnsureFrom(_, _, _)
EnsureFrom(items, k, names) ==
    IF k > Len(items) THEN None
    ELSE IF items[k].name \in names THEN Some(items[k].name)
    ELSE EnsureFrom(items, k + 1, names \cup {items[k].name})

\* A faulty variant of ensure_item_name_is_unique: a name is compared with the name
\* just before it only.
ensure_adjacent_names_differ(items) ==
    LET hits == {k \in 2..Len(items) : items[k].name = items[k - 1].name}
    IN  IF hits = {} THEN None
        ELSE Some(items[CHOOSE k \in hits : \A j \in hits : k <= j].name)

ensure_item_name_is_unique(items) == EnsureFrom(items, 1, {})

\* Lines 126-128: a missing supported_systems becomes [SchemeSystem::default()].
FillSystems(item) ==
    IF IsNone(item.supported_systems)
    THEN [item EXCEPT !.supported_systems = Some(<<SchemeSystemDefault>>)]
    ELSE item

\* Lines 131-145: the item with "~/" replaced by the home directory; ok is
\* FALSE when the path asks for a home directory and there is none.
ExpandHome(item, h) ==
    LET trimmed_path == Trim(item.path)
    IN  IF StartsWith(trimmed_path, TildeSlash)
        THEN IF IsSome(h)
             THEN [ok |-> TRUE,
                   item |-> [item EXCEPT !.path =
                                Replacen1(trimmed_path, TildeSlash, Unwrap(h) \o <<"/">>)]]
             ELSE [ok |-> FALSE, item |-> item]
        ELSE [ok |-> TRUE, item |-> item]

\* A faulty variant of PathIsInvalid: "||" where the code has "&&".
PathIsInvalid_Either(path, ds) == ~UrlParseOk(path) \/ path \notin ds

\* Lines 148-149: the path is no URL and no existing directory.
PathIsInvalid(path, ds) == ~UrlParseOk(path) /\ path \notin ds

\* A faulty variant of ShellHasPlaceholder: only the opening brace is looked for.
ShellHasOpeningBrace(sh) == Contains(sh, <<"{">>)

\* Line 156: shell.contains("{}")
ShellHasPlaceholder(sh) == Contains(sh, Placeholder)

\* ------------------------------------------------------- Config::read
\* Lines 84-89: a config path that exists and is no file is refused.
CheckPath ==
    /\ pc = "start"
    /\ IF ExistsNotFile(pathKind)
       THEN /\ result' = Err("PathIsDirectory", <<ConfigPath>>)
            /\ pc' = "done"
       ELSE /\ pc' = "parse"
            /\ UNCHANGED result
    /\ UNCHANGED <<pathKind, contents, env, config, shell, i, round, orig>>

\* Lines 91-97: read the file (or "") and deserialize it.
ReadParse ==
    /\ pc = "parse"
    /\ LET parsed == from_str(ReadToStringOrEmpty(pathKind, contents))
       IN  IF parsed.ok
           THEN /\ config' = Some(parsed.config)
                /\ pc' = "defaults"
                /\ UNCHANGED result
           ELSE /\ result' = Err("ParseError", <<ConfigPath>>)
                /\ pc' = "done"
                /\ UNCHANGED config
    /\ UNCHANGED <<pathKind, contents, env, shell, i, round, orig>>

\* A faulty variant of Defaults: the placeholder is checked where the shell is
\* computed, before the items are looked at.
Defaults_ShellFirst ==
    /\ pc = "defaults"
    /\ shell' = Some(UnwrapOr(Unwrap(config).shell, DEFAULT_CONFIG_SHELL))
    /\ IF ~Contains(UnwrapOr(Unwrap(config).shell, DEFAULT_CONFIG_SHELL), Placeholder)
       THEN /\ result' = Err("MissingShellPlaceholder", <<>>)
            /\ pc' = "done"
            /\ UNCHANGED <<config, i>>
       ELSE IF IsSome(Unwrap(config).items)
       THEN LET dup == EnsureFrom(Unwrap(Unwrap(config).items), 1, {})
            IN  IF IsSome(dup)
                THEN /\ result' = Err("DuplicateItemName", <<Unwrap(dup)>>)
                     /\ pc' = "done"
                     /\ UNCHANGED <<config, i>>
                ELSE /\ pc' = "loop"
                     /\ i' = 1
                     /\ UNCHANGED <<config, result>>
       ELSE /\ config' = Some([Unwrap(config) EXCEPT !.items = Some(<<Base16ShellConfigItem>>)])
            /\ pc' = "loop"
            /\ i' = 1
            /\ UNCHANGED result
    /\ UNCHANGED <<pathKind, contents, env, round, orig>>

\* Lines 100-121: the effective shell; the uniqueness check, or the built-in
\* item when the file has no items key.
Defaults ==
    /\ pc = "defaults"
    /\ shell' = Some(UnwrapOr(Unwrap(config).shell, DEFAULT_CONFIG_SHELL))
    /\ IF IsSome(Unwrap(config).items)
       THEN LET dup == ensure_item_name_is_unique(Unwrap(Unwrap(config).items))
            IN  IF IsSome(dup)
                THEN /\ result' = Err("DuplicateItemName", <<Unwrap(dup)>>)
                     /\ pc' = "done"
                     /\ UNCHANGED <<config, i>>
                ELSE /\ pc' = "loop"
                     /\ i' = 1
                     /\ UNCHANGED <<config, result>>
       ELSE /\ config' = Some([Unwrap(config) EXCEPT !.items = Some(<<Base16ShellConfigItem>>)])
            /\ pc' = "loop"
            /\ i' = 1
            /\ UNCHANGED result
    /\ UNCHANGED <<pathKind, contents, env, round, orig>>

\* Lines 125-153: one turn of the loop over the items.
LoopItem ==
    /\ pc = "loop"
    /\ i <= Len(Unwrap(Unwrap(config).items))
    /\ LET item == FillSystems(Unwrap(Unwrap(config).items)[i])
           exp  == ExpandHome(item, home)
       IN  IF ~exp.ok
           THEN /\ result' = Err("HomeDirUnresolvable", <<item.path>>)
                /\ pc' = "done"
                /\ UNCHANGED <<config, i>>
           ELSE IF PathIsInvalid(exp.item.path, dirs)
           THEN /\ result' = Err("InvalidItemPath", <<exp.item.path>>)
                /\ pc' = "done"
                /\ UNCHANGED <<config, i>>
           ELSE /\ config' = Some([Unwrap(config) EXCEPT !.items =
                                      Some([Unwrap(@) EXCEPT ![i] = exp.item])])
                /\ i' = i + 1
                /\ UNCHANGED <<pc, result>>
    /\ UNCHANGED <<pathKind, contents, env, shell, round, orig>>

\* Lines 156-163: the placeholder check; the shell is stored and the Config
\* returned.
CheckShell ==
    /\ pc = "loop"
    /\ i > Len(Unwrap(Unwrap(config).items))
    /\ IF ~ShellHasPlaceholder(Unwrap(shell))
       THEN /\ result' = Err("MissingShellPlaceholder", <<>>)
            /\ UNCHANGED config
       ELSE /\ config' = Some([Unwrap(config) EXCEPT !.shell = shell])
            /\ result' = Ok([Unwrap(config) EXCEPT !.shell = shell])
    /\ pc' = "done"
    /\ UNCHANGED <<pathKind, contents, env, shell, i, round, orig>>

\* Lines 167-193: the returned Config is rendered with Display, the text
\* becomes the file, and Config::read runs on it again.
Render ==
    /\ pc = "done"
    /\ round = 1
    /\ result.kind = "Ok"
    /\ orig' = result.config
    /\ contents' = DisplayConfig(Unwrap(result.config))
    /\ pathKind' = "file"
    /\ round' = 2
    /\ pc' = "start"
    /\ config' = None
    /\ shell' = None
    /\ i' = 0
    /\ result' = NoResult
    /\ UNCHANGED env

Next == CheckPath \/ ReadParse \/ Defaults \/ LoopItem \/ CheckShell \/ Render

\* ------------------------------------------------------------ the inputs
\* A TOML basic string for s: quotes and backslashes escaped.
RECURSIVE Escape(_)
Escape(s) ==
    IF s = <<>> THEN <<>>
    ELSE (IF Head(s) \in {Quote, Backslash} THEN <<Backslash, Head(s)>> ELSE <<Head(s)>>)
         \o Escape(Tail(s))

TomlString(s) == <<Quote>> \o Escape(s) \o <<Quote>>

OptStrLine(key, o) == IF IsSome(o) THEN <<StrLine(key, TomlString(Unwrap(o)))>> ELSE <<>>

\* The [[items]] table a user writes for an item (fields of lines 22-32).
ItemToml(item) ==
    <<HdrLine,
      StrLine("name", TomlString(item.name)),
      StrLine("themes-dir", TomlString(item.themes_dir)),
      StrLine("path", TomlString(item.path))>>
    \o OptStrLine("hook", item.hook)
    \o (IF IsSome(item.supported_systems)
        THEN <<ArrLine("supported-systems",
                       [e \in 1..Len(Unwrap(item.supported_systems)) |->
                           TomlString(SystemText(Unwrap(item.supported_systems)[e]))])>>
        ELSE <<>>)
    \o OptStrLine("theme-file-extension", item.theme_file_extension)

RECURSIVE ItemsToml(_)
ItemsToml(items) ==
    IF items = <<>> THEN <<>> ELSE ItemToml(Head(items)) \o ItemsToml(Tail(items))

\* The file a user writes for a draft Config (fields of lines 62-68).
ConfigToml(c) ==
    OptStrLine("shell", c.shell)
    \o OptStrLine("default-scheme", c.default_scheme)
    \o (IF IsSome(c.hooks)
        THEN <<ArrLine("hooks", [e \in 1..Len(Unwrap(c.hooks)) |->
                                    TomlString(Unwrap(c.hooks)[e])])>>
        ELSE <<>>)
    \o (IF IsNone(c.items) THEN <<>>
        ELSE IF Unwrap(c.items) = <<>> THEN <<ArrLine("items", <<>>)>>
        ELSE ItemsToml(Unwrap(c.items)))

SeqsUpTo(S, n) == UNION {[1..m -> S] : m \in 0..n}
Opt(S) == {None} \cup {Some(x) : x \in S}
Spaces(n) == [j \in 1..n |-> " "]

\* Shell templates: every text of braces up to MaxShellLen.
Shells == SeqsUpTo({"{", "}"}, MaxShellLen)
BadShell == <<"}", "{">>

\* The home directory and two file systems.  In DirsTilde a directory named
\* "~" lies in the working directory and the home directory is empty.
HomeDir == <<"/", "h">>
DirsHome == { <<"a">>, <<"/","h","/","a">> }
DirsTilde == { <<"a">>, <<"~","/","a">> }

UrlPath == <<"a", ":">>
DirPath == <<"a">>
NoPath == <<"b">>
HomePath == <<"~", "/", "a">>

\* Item paths: two of them with up to MaxPad spaces on either side.
Paths ==
    { Spaces(l) \o p \o Spaces(r) : l \in 0..MaxPad, r \in 0..MaxPad, p \in {DirPath, HomePath} }
    \cup { UrlPath, NoPath, <<" ", "a", ":", " ">>, <<"~", "/", "b">>,
           <<"~", "/", "~", "/", "a">>, <<"a", "~", "/">> }
FewPaths == {UrlPath, NoPath, HomePath}

NameOf(k) == [j \in 1..k |-> "n"]
Names == { <<"a">>, <<"b">> }
ThemesDir == <<"t">>

PlainItem(name, path) == ConfigItem(name, path, None, ThemesDir, None, None)

Hooks == { None, Some(<<>>), Some(<<"a">>), Some(<<"a", Quote>>) }
SystemLists == Opt(SeqsUpTo(SchemeSystems, MaxSystems))
Extensions == { None, Some(<<".", "a">>) }

Input(kind, text, h, ds) == [pathKind |-> kind, contents |-> text, home |-> h, dirs |-> ds]

\* Files that vary the root keys.
RootInputs ==
    { Input("file", ConfigToml(Config(sh, ds, its, hs)), Some(HomeDir), DirsHome) :
        sh \in Opt(Shells),
        ds \in Opt({<<"d">>}),
        its \in { None, Some(<<>>), Some(<<PlainItem(NameOf(1), UrlPath)>>),
                  Some(<<PlainItem(NameOf(1), NoPath)>>) },
        hs \in { None, Some(<<>>), Some(<< <<"e">> >>) } }

\* Config paths that are no readable file.
KindInputs ==
    { Input(k, <<>>, Some(HomeDir), DirsHome) : k \in {"missing", "file", "dir"} }
    \cup { Input("unreadable", ConfigToml(Config(Some(BadShell), None, None, None)),
                 Some(HomeDir), DirsHome) }

\* Files that vary one item's optional keys, alone or after another item.
ExtraInputs ==
    { Input("file", ConfigToml(Config(None, None, Some(pre \o <<x>>), None)),
            Some(HomeDir), DirsHome) :
        pre \in { <<>>, <<PlainItem(NameOf(2), UrlPath)>> },
        x \in { ConfigItem(NameOf(1), UrlPath, hk, ThemesDir, sys, ext) :
                  hk \in Hooks, sys \in SystemLists, ext \in Extensions } }

\* Files that vary the last item's path, after items with a few paths.
PathInputs ==
    { Input("file",
            ConfigToml(Config(e.sh, None,
                Some([k \in 1..(Len(pre) + 1) |->
                        PlainItem(NameOf(k), IF k <= Len(pre) THEN pre[k] ELSE p)]),
                None)),
            e.h, e.ds) :
        pre \in SeqsUpTo(FewPaths, MaxItems - 1),
        p \in Paths,
        e \in { [sh |-> None, h |-> Some(HomeDir), ds |-> DirsHome],
                [sh |-> None, h |-> Some(HomeDir), ds |-> DirsTilde],
                [sh |-> None, h |-> None, ds |-> DirsHome],
                [sh |-> Some(BadShell), h |-> Some(HomeDir), ds |-> DirsHome] } }

\* Files that vary the items' names; "a" and "A" are different names.
NameInputs ==
    { Input("file",
            ConfigToml(Config(None, None,
                Some([k \in 1..Len(ns) |-> PlainItem(ns[k], UrlPath)]), None)),
            Some(HomeDir), DirsHome) :
        ns \in SeqsUpTo(Names \cup {<<"A">>}, MaxNameItems) \ {<<>>} }

\* Inputs with several defects at once.
DefectInputs ==
    { Input(k,
            ConfigToml(Config(sh, None,
                Some([j \in 1..Len(its) |-> PlainItem(its[j][1], its[j][2])]), None))
            \o junk,
            h, DirsHome) :
        k \in {"file", "dir"},
        sh \in {None, Some(BadShell)},
        its \in SeqsUpTo(Names \X FewPaths, MaxItems) \ {<<>>},
        junk \in { <<>>, <<JunkLine>> },
        h \in {None, Some(HomeDir)} }

\* Files that toml or serde reject, and files with keys nobody reads.
OddInputs ==
    { Input("file", text, Some(HomeDir), DirsHome) :
        text \in {
            <<JunkLine>>,
            <<ArrLine("shell", <<>>)>>,
            <<StrLine("hooks", TomlString(<<"e">>))>>,
            <<StrLine("shell", <<Quote, "{", "}">>)>>,
            <<StrLine("shell", TomlString(Placeholder)), StrLine("shell", TomlString(Placeholder))>>,
            <<ArrLine("items", <<TomlString(<<"a">>)>>)>>,
            <<ArrLine("items", <<>>)>> \o ItemToml(PlainItem(NameOf(1), UrlPath)),
            <<HdrLine, StrLine("name", TomlString(NameOf(1))), StrLine("path", TomlString(UrlPath))>>,
            ItemToml(PlainItem(NameOf(1), UrlPath))
                \o <<ArrLine("supported-systems", <<TomlString(<<"l","i","s","t">>)>>)>>,
            <<StrLine("unknown", TomlString(<<"a">>)), BlankLine>>
                \o ItemToml(PlainItem(NameOf(1), UrlPath))
                \o <<StrLine("unknown", TomlString(<<"a">>))>> } }

Inputs ==
    RootInputs \cup KindInputs \cup ExtraInputs \cup PathInputs \cup NameInputs
    \cup DefectInputs \cup OddInputs

Init ==
    /\ \E in \in Inputs :
          /\ pathKind = in.pathKind
          /\ contents = in.contents
          /\ home = in.home
          /\ dirs = in.dirs
    /\ pc = "start"
    /\ config = None
    /\ shell = None
    /\ i = 0
    /\ result = NoResult
    /\ round = 1
    /\ orig = None

Spec == Init /\ [][Next]_vars

\* ------------------------------------------------- what a load was given
\* The definitions below describe the input of the current load from the
\* file and the environment alone; the claims compare them with what the
\* steps of Config::read produced.  d is the draft the file's text stands
\* for, its the items of the draft (the built-in item when it has none).
Done == pc = "done"

FileText == IF pathKind = "file" THEN contents ELSE <<>>
Loaded == from_str(FileText)

\* The values the built-in item and the default shell are documented to have.
ExpectedDefaultItem ==
    [name |-> <<"t","i","n","t","e","d","-","s","h","e","l","l">>,
     path |-> <<"h","t","t","p","s",":","/","/","g","i","t","h","u","b",".","c","o","m",
                "/","t","i","n","t","e","d","-","t","h","e","m","i","n","g",
                "/","t","i","n","t","e","d","-","s","h","e","l","l">>,
     hook |-> Some(<<".", " ", "%", "f">>),
     themes_dir |-> <<"s","c","r","i","p","t","s">>,
     supported_systems |-> Some(<<"Base16">>),
     theme_file_extension |-> None]
ExpectedDefaultShell == <<"s","h"," ","-","c"," ","'","{","}","'">>

ItemsOf(d) == IF IsSome(d.items) THEN Unwrap(d.items) ELSE <<ExpectedDefaultItem>>
EffectiveShell(d) == UnwrapOr(d.shell, ExpectedDefaultShell)
Returned == Unwrap(result.config)
ReturnedItems == Unwrap(Returned.items)

IsDirectoryDefect == pathKind = "dir"
DuplicateDefect(d) ==
    /\ IsSome(d.items)
    /\ \E j, k \in 1..Len(Unwrap(d.items)) :
          j < k /\ Unwrap(d.items)[j].name = Unwrap(d.items)[k].name
\* The first item, in file order, whose name occurred earlier in the list.
FirstDuplicate(its) ==
    CHOOSE k \in 1..Len(its) :
        /\ \E j \in 1..(k - 1) : its[j].name = its[k].name
        /\ \A m \in 1..(k - 1) : \A j \in 1..(m - 1) : its[j].name # its[m].name

WantsHome(p) == StartsWith(Trim(p), TildeSlash)
\* The home directory, "/", and what follows the leading "~/" of the trimmed path.
Rewritten(p) == Unwrap(home) \o <<"/">> \o SubSeq(Trim(p), 3, Len(Trim(p)))
ValidatedPath(p) == IF WantsHome(p) THEN Rewritten(p) ELSE p
UrlOrDirectory(p) == UrlParseOk(p) \/ p \in dirs

PathDefect(p) ==
    IF WantsHome(p) /\ IsNone(home) THEN "HomeDirUnresolvable"
    ELSE IF ~UrlOrDirectory(ValidatedPath(p)) THEN "InvalidItemPath"
    ELSE ""
DefectiveItems(its) == {k \in 1..Len(its) : PathDefect(its[k].path) # ""}
FirstDefective(its) ==
    LET bad == DefectiveItems(its) IN CHOOSE k \in bad : \A j \in bad : k <= j
ShellDefect(d) ==
    LET sh == EffectiveShell(d)
    IN  ~(\E k \in 1..(Len(sh) - 1) : sh[k] = "{" /\ sh[k + 1] = "}")

\* Some interpolated value of the error message contains s.
Mentions(s) == \E a \in 1..Len(result.args) : Contains(result.args[a], s)

\* ------------------------------------------------------------ the claims

\* C1 as stated: whenever the file parses, a shell without "{}" makes the load
\* fail with MissingShellPlaceholder and a shell with "{}" makes it succeed
\* with that exact shell.
C1_AsStated ==
    (Done /\ pathKind = "file") =>
        LET f == Loaded
        IN  f.ok =>
              IF ShellDefect(f.config)
              THEN result = Err("MissingShellPlaceholder", <<>>)
              ELSE result.kind = "Ok" /\ Returned.shell = Some(EffectiveShell(f.config))

\* C1 amended: when every earlier step passes (the config path is no
\* directory, the file parses, the names are unique, every item's path is
\* accepted), a shell without "{}" makes the load fail with
\* MissingShellPlaceholder and a shell with "{}" makes it succeed with that
\* exact shell stored.
C1_ShellPlaceholder ==
    (Done /\ ~IsDirectoryDefect) =>
        LET f == Loaded
        IN  (f.ok /\ ~DuplicateDefect(f.config) /\ DefectiveItems(ItemsOf(f.config)) = {}) =>
              IF ShellDefect(f.config)
              THEN result = Err("MissingShellPlaceholder", <<>>)
              ELSE result.kind = "Ok" /\ Returned.shell = Some(EffectiveShell(f.config))

\* C1 witness: a load that fails on a shell the file provides, one brace short.
C1_Witness ==
    /\ Done /\ round = 1
    /\ result.err = "MissingShellPlaceholder"
    /\ IsSome(Loaded.config.shell)
    /\ Contains(EffectiveShell(Loaded.config), <<"{">>)

\* C2 as stated: after a successful load every item's supported_systems is
\* present and non-empty.
C2_SystemsNonEmpty ==
    (Done /\ result.kind = "Ok") =>
        \A k \in 1..Len(ReturnedItems) :
            /\ IsSome(ReturnedItems[k].supported_systems)
            /\ Len(Unwrap(ReturnedItems[k].supported_systems)) > 0

\* C3 as stated: loading the rendering of a loaded Config succeeds and gives
\* a Config equal to it in every field.
C3_RoundTrip ==
    (Done /\ round = 2) => (result.kind = "Ok" /\ result.config = orig)

\* C4: a file that parses and holds a repeated item name fails with
\* DuplicateItemName carrying the name of the first item whose name occurred
\* earlier, and returns no Config.
C4_DuplicateName ==
    (Done /\ pathKind = "file") =>
        LET f == Loaded
            its == ItemsOf(f.config)
        IN  (f.ok /\ DuplicateDefect(f.config)) =>
              /\ result.kind = "Err"
              /\ result.err = "DuplicateItemName"
              /\ result.args = <<its[FirstDuplicate(its)].name>>
              /\ result.config = None

\* C4 witness: a failed load of four items where the repeated name reported
\* is not the name the list starts with.
C4_Witness ==
    /\ Done /\ result.err = "DuplicateItemName"
    /\ LET its == ItemsOf(Loaded.config)
       IN  /\ Len(its) = 4
           /\ its[1].name = its[4].name
           /\ result.args # <<its[1].name>>

\* C5: a valid file without an items key loads to exactly one item, the
\* built-in one, whatever its shell, default-scheme and hooks are.
C5_DefaultItem ==
    (Done /\ ~IsDirectoryDefect) =>
        LET f == Loaded
        IN  (f.ok /\ IsNone(f.config.items) /\ ~ShellDefect(f.config)) =>
              /\ result.kind = "Ok"
              /\ Returned.items = Some(<<ExpectedDefaultItem>>)

\* C5 witness: a successful load of a file that sets shell, default-scheme and
\* hooks but no items.
C5_Witness ==
    /\ Done /\ round = 1 /\ result.kind = "Ok"
    /\ pathKind = "file"
    /\ LET d == Loaded.config
       IN  /\ IsNone(d.items)
           /\ IsSome(d.shell) /\ IsSome(d.default_scheme) /\ IsSome(d.hooks)

\* C6 as stated: in a file that parses and has unique names, every item whose
\* path (after ~/ expansion) is neither a URL nor an existing directory makes
\* the load fail with InvalidItemPath, the message holding that path and the
\* item's name.
C6_AsStated ==
    (Done /\ pathKind = "file") =>
        LET f == Loaded
            its == ItemsOf(f.config)
        IN  (f.ok /\ ~DuplicateDefect(f.config)) =>
              \A k \in 1..Len(its) :
                  PathDefect(its[k].path) = "InvalidItemPath" =>
                      /\ result.err = "InvalidItemPath"
                      /\ Mentions(ValidatedPath(its[k].path))
                      /\ Mentions(its[k].name)

\* C6 amended: in a file that parses and has unique names, when the first
\* item in file order that fails step 3 has a path (after ~/ expansion) that
\* is neither a URL nor an existing directory, the load fails with
\* InvalidItemPath and the message holds that path and nothing else: the
\* item's name is not in it.  No Config is returned.
C6_InvalidPath ==
    (Done /\ pathKind = "file") =>
        LET f == Loaded
            its == ItemsOf(f.config)
        IN  (f.ok /\ ~DuplicateDefect(f.config) /\ DefectiveItems(its) # {}) =>
              LET p == its[FirstDefective(its)].path
              IN  PathDefect(p) = "InvalidItemPath" =>
                      result = Err("InvalidItemPath", <<ValidatedPath(p)>>)

\* C6 witness: a load that fails on the second item's path, which was
\* rewritten from "~/".
C6_Witness ==
    /\ Done /\ result.err = "InvalidItemPath"
    /\ i = 2
    /\ WantsHome(ItemsOf(Loaded.config)[2].path)

\* C7 as stated: a path that begins with "~/" is stored as the home
\* directory, "/", and the rest of the path after that "~/".
C7_AsStated ==
    (Done /\ result.kind = "Ok" /\ IsSome(home)) =>
        LET its == ItemsOf(Loaded.config)
        IN  \A k \in 1..Len(its) :
              StartsWith(its[k].path, TildeSlash) =>
                  ReturnedItems[k].path =
                      Unwrap(home) \o <<"/">> \o SubSeq(its[k].path, 3, Len(its[k].path))

\* C7 amended: a path that begins with "~/" is stored as the home directory,
\* "/", and the rest of the path after that first "~/" with trailing
\* whitespace removed; later "~/" are kept; and it is this rewritten path the
\* URL-or-directory check decides on.
C7_HomeExpansion ==
    (Done /\ ~IsDirectoryDefect /\ IsSome(home)) =>
        LET f == Loaded
            its == ItemsOf(f.config)
            bad == DefectiveItems(its)
        IN  (f.ok /\ ~DuplicateDefect(f.config)) =>
              \A k \in 1..Len(its) :
                  LET p == its[k].path
                      rest == TrimEnd(SubSeq(p, 3, Len(p)))
                      want == Unwrap(home) \o <<"/">> \o rest
                  IN  (StartsWith(p, TildeSlash) /\ \A j \in bad : k <= j) =>
                          IF UrlParseOk(want) \/ want \in dirs
                          THEN /\ ~(result.err = "InvalidItemPath" /\ i = k)
                               /\ result.kind = "Ok" => ReturnedItems[k].path = want
                          ELSE result = Err("InvalidItemPath", <<want>>)

\* C7 witness: a successful load of a path that begins with "~/", holds a
\* second "~/" or ends with a space.
C7_Witness ==
    /\ Done /\ round = 1 /\ result.kind = "Ok"
    /\ LET its == ItemsOf(Loaded.config)
       IN  \E k \in 1..Len(its) :
              /\ StartsWith(its[k].path, TildeSlash)
              /\ its[k].path # Trim(its[k].path)

\* C8: a config path that does not exist loads to the same Config as an
\* empty file: the default shell, no default_scheme, no hooks, the built-in
\* item.
C8_MissingIsEmpty ==
    (Done /\ round = 1 /\ (pathKind = "missing" \/ (pathKind = "file" /\ contents = <<>>))) =>
        result = Ok([shell |-> Some(ExpectedDefaultShell), default_scheme |-> None,
                     items |-> Some(<<ExpectedDefaultItem>>), hooks |-> None])

\* C8 witness: the load of a missing path has returned a Config.
C8_Witness == Done /\ pathKind = "missing" /\ result.kind = "Ok"

\* C9 as stated: every path is trimmed first; the trimmed (and, for "~/",
\* rewritten) path is what is validated and what is stored, so a file whose
\* trimmed paths are all acceptable loads and stores them without the spaces.
C9_TrimmedPaths ==
    (Done /\ ~IsDirectoryDefect) =>
        LET f == Loaded
            its == ItemsOf(f.config)
            want == [k \in 1..Len(its) |->
                        IF WantsHome(its[k].path) THEN Rewritten(its[k].path)
                        ELSE Trim(its[k].path)]
        IN  (/\ f.ok /\ ~DuplicateDefect(f.config) /\ ~ShellDefect(f.config)
             /\ \A k \in 1..Len(its) :
                   /\ WantsHome(its[k].path) => IsSome(home)
                   /\ UrlOrDirectory(want[k])) =>
              /\ result.kind = "Ok"
              /\ \A k \in 1..Len(its) : ReturnedItems[k].path = want[k]

\* C10: a load reports the first failing step in the order PathIsDirectory,
\* ParseError, DuplicateItemName, then item by item HomeDirUnresolvable before
\* InvalidItemPath, then MissingShellPlaceholder; the loop has stopped at the
\* failing item, and a failed load returns no Config.
C10_FirstFailure ==
    Done =>
        LET f == Loaded
            its == ItemsOf(f.config)
        IN  /\ result.kind \in {"Ok", "Err"}
            /\ result.kind = "Err" <=> result.config = None
            /\ IF IsDirectoryDefect THEN result.err = "PathIsDirectory" /\ config = None
               ELSE IF ~f.ok THEN result.err = "ParseError" /\ config = None
               ELSE IF DuplicateDefect(f.config)
                    THEN result.err = "DuplicateItemName" /\ i = 0
               ELSE IF DefectiveItems(its) # {}
                    THEN /\ result.err = PathDefect(its[FirstDefective(its)].path)
                         /\ i = FirstDefective(its)
               ELSE IF ShellDefect(f.config) THEN result.err = "MissingShellPlaceholder"
               ELSE result.kind = "Ok"

\* C10 witness: a load that failed on the second item's path although the
\* names repeat nowhere and the shell lacks the placeholder too.
C10_Witness ==
    /\ Done /\ result.err = "InvalidItemPath"
    /\ ShellDefect(Loaded.config)
    /\ i = 2

====
